---- MODULE Spec2Model ----
\* Model of llm-knowledge-graph/create_my_kg.py: a one-shot batch pipeline that
\* loads CSV documents, splits them into chunks and, for every chunk, embeds
\* it, upserts Document/Chunk nodes, extracts entities with an LLM and merges
\* them into a Neo4j store; finally it creates a vector index.
EXTENDS Integers, Sequences, FiniteSets, TLC

\* ---------------------------------------------------------------- bounds
MaxPages == 1   \* documents the loader yields per file (page 0 .. MaxPages-1)
MaxParts == 2   \* chunks the splitter yields per document
MaxRuns  == 2   \* process invocations against the same store

\* ------------------------------------------------------- program constants
VectorDimensions == 1536          \* `vector.dimensions` of chunkVector
AdaDimensions == 1536             \* output size of text-embedding-ada-002
SimilarityFunction == "cosine"
EmbeddingModel == "text-embedding-ada-002"
AllowedNodes == {"Claim", "Policy"}   \* two of the allowed_nodes labels

\* ------------------------------------------------------------ strings
\* Strings are sequences of characters.
Digit == <<"0", "1", "2", "3", "4", "5", "6", "7", "8", "9">>

RECURSIVE Str(_)
\* str(n) for a non-negative int, as the f-string formats the page
Str(n) == IF n < 10 THEN <<Digit[n + 1]>>
          ELSE Str(n \div 10) \o <<Digit[(n % 10) + 1]>>

RECURSIVE RFind(_, _, _)
\* 1-based position of the last occurrence of c in p[1..k], 0 when absent
RFind(p, c, k) == IF k = 0 THEN 0
                  ELSE IF p[k] = c THEN k ELSE RFind(p, c, k - 1)

\* os.path.basename: everything after the final "/"
basename(p) == SubSeq(p, RFind(p, "/", Len(p)) + 1, Len(p))

\* f"{filename}.{page}"
ChunkIdOf(fname, page) == fname \o <<".">> \o Str(page)

\* ------------------------------------------------------------ inputs
PathAX == <<"a", "/", "x", ".", "c", "s", "v">>
PathBX == <<"b", "/", "x", ".", "c", "s", "v">>
PathAY == <<"a", "/", "y", ".", "c", "s", "v">>

\* directory contents matched by the recursive glob **/*.csv
Listings == {<< >>, <<PathAX>>, <<PathAX, PathBX>>, <<PathAX, PathAY>>}

NoPage == -1
NoText == <<0, 0, 0>>
NoVector == -1
NoIndex == [dims |-> 0, similarity |-> "none"]
NoError == "none"

\* The data directory: which files exist, how many documents the loader
\* yields per file, into how many chunks the splitter cuts each document, and
\* whether the loader's metadata carries a 'page' key.
DataDirs == [listing : Listings, npages : 1..MaxPages,
             nparts : 1..MaxParts, hasPage : BOOLEAN]

RECURSIVE LoadFile(_, _, _, _)
\* documents of file number f with source path src, pages k .. d.npages-1
LoadFile(d, f, src, k) ==
    IF k >= d.npages THEN << >>
    ELSE <<[source |-> src, page |-> IF d.hasPage THEN k ELSE NoPage,
            doc |-> <<f, k>>]>> \o LoadFile(d, f, src, k + 1)

RECURSIVE LoadFrom(_, _)
\* loader.load(): the documents of files f .. Len(listing), in order
LoadFrom(d, f) ==
    IF f > Len(d.listing) THEN << >>
    ELSE LoadFile(d, f, d.listing[f], 0) \o LoadFrom(d, f + 1)

load(d) == LoadFrom(d, 1)

RECURSIVE SplitOne(_, _, _)
\* the chunks of one document: each copies the document's metadata
SplitOne(doc, nparts, k) ==
    IF k > nparts THEN << >>
    ELSE <<[source |-> doc.source, page |-> doc.page,
            page_content |-> <<doc.doc[1], doc.doc[2] + 1, k>>]>>
         \o SplitOne(doc, nparts, k + 1)

RECURSIVE SplitFrom(_, _, _)
SplitFrom(ds, nparts, j) ==
    IF j > Len(ds) THEN << >>
    ELSE SplitOne(ds[j], nparts, 1) \o SplitFrom(ds, nparts, j + 1)

\* text_splitter.split_documents(docs)
split_documents(ds, nparts) == SplitFrom(ds, nparts, 1)

\* embedding_provider.embed_query: a vector, represented by its length
embed_query(text) ==
    IF EmbeddingModel = "text-embedding-ada-002" THEN AdaDimensions ELSE 0

\* ------------------------------------------------------------ store
NewNode(ns, label, id) ==
    [nid |-> Cardinality(ns) + 1, label |-> label, id |-> id,
     text |-> NoText, textEmbedding |-> NoVector]

Match(ns, label, id) == {n \in ns : n.label = label /\ n.id = id}

\* a plain CREATE: a new node whether or not one with this id exists
CreateNode(ns, label, id) == ns \cup {NewNode(ns, label, id)}

\* MERGE (n:label {id: id}): create the node only when no node matches
MergeNode(ns, label, id) ==
    IF Match(ns, label, id) # {} THEN ns ELSE ns \cup {NewNode(ns, label, id)}

\* MERGE (a)-[:type]->(b) for every matched pair
MergeRel(ns, rs, la, ida, type, lb, idb) ==
    rs \cup {[src |-> a.nid, type |-> type, dst |-> b.nid] :
                a \in Match(ns, la, ida), b \in Match(ns, lb, idb)}

SkipPartOf(ns, rs, fname, cid) == rs

\* MERGE (d)<-[:PART_OF]-(c)
MergePartOf(ns, rs, fname, cid) ==
    MergeRel(ns, rs, "Chunk", cid, "PART_OF", "Document", fname)

SkipNodeVectorProperty(n, v) == n

\* CALL db.create.setNodeVectorProperty(c, 'textEmbedding', $embedding)
SetNodeVectorProperty(n, v) == [n EXCEPT !.textEmbedding = v]

\* the Document/Chunk upsert query, one transaction
UpsertQuery(ns, rs, p) ==
    LET n1 == MergeNode(ns, "Document", p.filename)
        n2 == MergeNode(n1, "Chunk", p.chunk_id)
        n3 == {IF n.label = "Chunk" /\ n.id = p.chunk_id
               THEN SetNodeVectorProperty([n EXCEPT !.text = p.text],
                                          p.embedding)
               ELSE n : n \in n2}
    IN  [nodes |-> n3,
         rels  |-> MergePartOf(n3, rs, p.filename, p.chunk_id)]

\* ------------------------------------------------------ graph documents
Node(id, type) == [id |-> id, type |-> type]
Relationship(source, target, type) ==
    [source |-> source, target |-> target, type |-> type]

Entity1 == Node(<<"e", "1">>, "Claim")
Entity2 == Node(<<"e", "2">>, "Policy")

\* what the LLM transformer may return for one chunk: a list holding one
\* graph document, empty or with two entities of allowed labels
GraphDocChoices ==
    { <<[nodes |-> << >>, relationships |-> << >>]>>,
      <<[nodes |-> <<Entity1, Entity2>>,
         relationships |-> <<Relationship(Entity1, Entity2, "in:against")>>]>> }

RECURSIVE HasEntityRels(_, _, _)
\* the relationships the inner loop appends for nodes k .. Len(nodes)
HasEntityRels(chunk_node, nodes, k) ==
    IF k > Len(nodes) THEN << >>
    ELSE <<Relationship(chunk_node, nodes[k], "HAS_ENTITY")>>
         \o HasEntityRels(chunk_node, nodes, k + 1)

MapNoEntities(gds, cid) == gds

\* the mapping loop: every node of every graph document gets a HAS_ENTITY
\* relationship from Node(id=chunk_id, type="Chunk")
MapEntities(gds, cid) ==
    [g \in 1..Len(gds) |->
        [gds[g] EXCEPT !.relationships =
            @ \o HasEntityRels(Node(cid, "Chunk"), gds[g].nodes, 1)]]

RECURSIVE ImportNodes(_, _, _)
\* node import of add_graph_documents: merge every node by (type, id)
ImportNodes(ns, nodes, k) ==
    IF k > Len(nodes) THEN ns
    ELSE ImportNodes(MergeNode(ns, nodes[k].type, nodes[k].id), nodes, k + 1)

RECURSIVE ImportRels(_, _, _)
\* relationship import: merge source, merge target, merge the relationship
ImportRels(st, relationships, k) ==
    IF k > Len(relationships) THEN st
    ELSE LET r  == relationships[k]
             n1 == MergeNode(st.nodes, r.source.type, r.source.id)
             n2 == MergeNode(n1, r.target.type, r.target.id)
         IN  ImportRels([nodes |-> n2,
                         rels  |-> MergeRel(n2, st.rels, r.source.type,
                                            r.source.id, r.type,
                                            r.target.type, r.target.id)],
                        relationships, k + 1)

RECURSIVE AddFrom(_, _, _, _)
\* graph documents g .. Len(gds); withRels = FALSE stops after node import
AddFrom(st, gds, g, withRels) ==
    IF g > Len(gds) THEN st
    ELSE LET n1 == [nodes |-> ImportNodes(st.nodes, gds[g].nodes, 1),
                    rels  |-> st.rels]
             n2 == IF withRels THEN ImportRels(n1, gds[g].relationships, 1)
                   ELSE n1
         IN  AddFrom(n2, gds, g + 1, withRels)

\* graph.add_graph_documents(graph_docs)
add_graph_documents(ns, rs, gds) ==
    AddFrom([nodes |-> ns, rels |-> rs], gds, 1, TRUE)

IndexConfig == [dims |-> VectorDimensions, similarity |-> SimilarityFunction]

CreateVectorIndexAlways(idx) ==
    [err |-> idx # NoIndex, index |-> IF idx = NoIndex THEN IndexConfig ELSE idx]

\* CREATE VECTOR INDEX `chunkVector` IF NOT EXISTS ...
CreateVectorIndex(idx) ==
    [err |-> FALSE, index |-> IF idx = NoIndex THEN IndexConfig ELSE idx]

\* ------------------------------------------------------------ state
VARIABLES
    data,             \* the data directory (never changes)
    nodes, rels,      \* the graph store
    index,            \* the chunkVector index, or NoIndex
    run,              \* number of the current process invocation
    pc,               \* the statement the process is at
    chunks,           \* result of split_documents
    i,                \* position of the for loop in chunks
    filename, chunk_id, chunk_embedding, graph_docs,   \* loop locals
    ids,              \* (filename, chunk_id) the loop computed per chunk
    error,            \* the exception that ended the run, or NoError
    log,              \* external calls made by this run, in order
    completed,        \* runs that reached the end of the script
    snapshot          \* Document/Chunk nodes when the last such run ended

vars == <<data, nodes, rels, index, run, pc, chunks, i, filename, chunk_id,
          chunk_embedding, graph_docs, ids, error, log, completed,
          snapshot>>

store == <<nodes, rels, index>>
locals == <<filename, chunk_id, chunk_embedding, graph_docs>>
history == <<ids, completed, snapshot>>

NoString == << >>
NoGraphDocs == << >>

Event(op, k) == [op |-> op, chunk |-> k]

DocChunkNodes(ns) == {n \in ns : n.label \in {"Document", "Chunk"}}

Init ==
    /\ data \in DataDirs
    /\ nodes = {} /\ rels = {} /\ index = NoIndex
    /\ run = 1
    /\ pc = "load"
    /\ chunks = << >>
    /\ i = 1
    /\ filename = NoString /\ chunk_id = NoString
    /\ chunk_embedding = NoVector /\ graph_docs = NoGraphDocs
    /\ ids = << >>
    /\ error = NoError
    /\ log = << >>
    /\ completed = 0
    /\ snapshot = {}

LoopHeadEarly(cs, k) == IF k >= Len(cs) THEN "index" ELSE "id"

\* where the loop goes from position k: the next chunk or the index statement
LoopHead(cs, k) == IF k > Len(cs) THEN "index" ELSE "id"

SwappedStep(step) ==
    CASE step = "id"      -> "embed"
      [] step = "embed"   -> "extract"
      [] step = "extract" -> "upsert"
      [] step = "upsert"  -> "map"
      [] step = "map"     -> "add"

\* the statement after each statement of the loop body
NextStep(step) ==
    CASE step = "id"      -> "embed"
      [] step = "embed"   -> "upsert"
      [] step = "upsert"  -> "extract"
      [] step = "extract" -> "map"
      [] step = "map"     -> "add"

\* docs = loader.load(); chunks = text_splitter.split_documents(docs)
LoadAndSplit ==
    /\ pc = "load"
    /\ chunks' = split_documents(load(data), data.nparts)
    /\ i' = 1
    /\ pc' = LoopHead(chunks', 1)
    /\ log' = Append(log, Event("load", 0))
    /\ UNCHANGED <<data, store, run, locals, error, history>>

\* filename = basename(source); chunk_id = f"{filename}.{page}"
ComputeChunkId ==
    /\ pc = "id"
    /\ filename' = basename(chunks[i].source)
    /\ IF chunks[i].page = NoPage
       THEN /\ error' = "KeyError"
            /\ pc' = "aborted"
            /\ UNCHANGED <<chunk_id, ids>>
       ELSE /\ chunk_id' = ChunkIdOf(filename', chunks[i].page)
            /\ ids' = Append(ids, [filename |-> filename',
                                   chunk_id |-> chunk_id'])
            /\ pc' = NextStep("id")
            /\ UNCHANGED error
    /\ UNCHANGED <<data, store, run, chunks, i, chunk_embedding, graph_docs,
                   log, completed, snapshot>>

\* chunk_embedding = embedding_provider.embed_query(chunk.page_content)
Embed ==
    /\ pc = "embed"
    /\ chunk_embedding' = embed_query(chunks[i].page_content)
    /\ log' = Append(log, Event("embed", i))
    /\ pc' = NextStep("embed")
    /\ UNCHANGED <<data, store, run, chunks, i, filename, chunk_id,
                   graph_docs, error, history>>

\* graph.query(MERGE Document, MERGE Chunk, SET text, MERGE PART_OF, vector)
Upsert ==
    /\ pc = "upsert"
    /\ LET st == UpsertQuery(nodes, rels,
                    [filename |-> filename, chunk_id |-> chunk_id,
                     text |-> chunks[i].page_content,
                     embedding |-> chunk_embedding])
       IN  nodes' = st.nodes /\ rels' = st.rels
    /\ log' = Append(log, Event("upsert", i))
    /\ pc' = NextStep("upsert")
    /\ UNCHANGED <<data, index, run, chunks, i, locals, error, history>>

\* graph_docs = doc_transformer.convert_to_graph_documents([chunk])
Extract ==
    /\ pc = "extract"
    /\ graph_docs' \in GraphDocChoices
    /\ log' = Append(log, Event("extract", i))
    /\ pc' = NextStep("extract")
    /\ UNCHANGED <<data, store, run, chunks, i, filename, chunk_id,
                   chunk_embedding, error, history>>

\* for graph_doc in graph_docs: for node in graph_doc.nodes: append HAS_ENTITY
MapToChunk ==
    /\ pc = "map"
    /\ graph_docs' = MapEntities(graph_docs, chunk_id)
    /\ pc' = NextStep("map")
    /\ UNCHANGED <<data, store, run, chunks, i, filename, chunk_id,
                   chunk_embedding, error, log, history>>

\* graph.add_graph_documents(graph_docs), then the next iteration
AddGraphDocuments ==
    /\ pc = "add"
    /\ LET st == add_graph_documents(nodes, rels, graph_docs)
       IN  nodes' = st.nodes /\ rels' = st.rels
    /\ log' = Append(log, Event("add", i))
    /\ i' = i + 1
    /\ pc' = LoopHead(chunks, i + 1)
    /\ UNCHANGED <<data, index, run, chunks, locals, error, history>>

\* graph.query(CREATE VECTOR INDEX `chunkVector` IF NOT EXISTS ...)
CreateIndex ==
    /\ pc = "index"
    /\ LET res == CreateVectorIndex(index)
       IN  IF res.err
           THEN /\ error' = "IndexExists"
                /\ pc' = "aborted"
                /\ UNCHANGED <<index, completed, snapshot>>
           ELSE /\ index' = res.index
                /\ pc' = "done"
                /\ completed' = completed + 1
                /\ snapshot' = DocChunkNodes(nodes)
                /\ UNCHANGED error
    /\ log' = Append(log, Event("index", 0))
    /\ UNCHANGED <<data, nodes, rels, run, chunks, i, locals, ids>>

FailingSteps == {"load", "embed", "upsert", "extract", "add", "index"}

FailAndSkip ==
    /\ pc \in {"embed", "upsert", "extract", "add"}
    /\ error' = "external"
    /\ log' = Append(log, Event(pc, i))
    /\ i' = i + 1
    /\ pc' = LoopHead(chunks, i + 1)
    /\ UNCHANGED <<data, store, run, chunks, locals, history>>

\* an external call raises (network, auth, malformed CSV): nothing catches
\* the exception, the interpreter exits; the failed call wrote nothing
Fail ==
    /\ pc \in FailingSteps
    /\ error' = "external"
    /\ log' = Append(log, Event(pc, IF pc \in {"load", "index"} THEN 0 ELSE i))
    /\ pc' = "aborted"
    /\ UNCHANGED <<data, store, run, chunks, i, locals, history>>

\* add_graph_documents raises between its node import and its relationship
\* import: the nodes are committed, the relationships are not
FailAddPartial ==
    /\ pc = "add"
    /\ LET st == AddFrom([nodes |-> nodes, rels |-> rels], graph_docs, 1, FALSE)
       IN  nodes' = st.nodes /\ rels' = st.rels
    /\ error' = "external"
    /\ log' = Append(log, Event("add", i))
    /\ pc' = "aborted"
    /\ UNCHANGED <<data, index, run, chunks, i, locals, history>>

\* the script is started again on the same data against the same store
Rerun ==
    /\ pc \in {"done", "aborted"}
    /\ run < MaxRuns
    /\ run' = run + 1
    /\ pc' = "load"
    /\ chunks' = << >>
    /\ i' = 1
    /\ filename' = NoString /\ chunk_id' = NoString
    /\ chunk_embedding' = NoVector /\ graph_docs' = NoGraphDocs
    /\ ids' = << >>
    /\ error' = NoError
    /\ log' = << >>
    /\ UNCHANGED <<data, store, completed, snapshot>>

Step ==
    \/ LoadAndSplit
    \/ ComputeChunkId
    \/ Embed
    \/ Upsert
    \/ Extract
    \/ MapToChunk
    \/ AddGraphDocuments
    \/ CreateIndex
    \/ Fail
    \/ FailAddPartial

Next == Step \/ Rerun

Spec == Init /\ [][Next]_vars

\* a run that has reached the index statement executes it: the call returns
\* or raises
FairSpec == Init /\ [][Next]_vars /\ WF_vars(CreateIndex \/ Fail)

TypeOK ==
    /\ pc \in {"load", "id", "embed", "upsert", "extract", "map", "add",
               "index", "done", "aborted"}
    /\ run \in 1..MaxRuns
    /\ i \in 1..(Len(chunks) + 1)

\* ------------------------------------------------------------ helpers
Positions == 1..Len(log)
Before(p, op, k) == \E q \in 1..(p - 1) : log[q] = Event(op, k)
Writes == {"upsert", "add"}
LoopOps == {"embed", "upsert", "extract", "add"}
ChunkNodes == {n \in nodes : n.label = "Chunk"}
HasEntity == {r \in rels : r.type = "HAS_ENTITY"}

\* no step of chunk k+1 happens before the last write (add) of chunk k
ChunksInTurn ==
    \A p \in Positions :
        (log[p].op \in LoopOps /\ log[p].chunk > 1)
            => Before(p, "add", log[p].chunk - 1)

\* d is the id the pipeline gives the Document of the chunk with id c
IsDocumentOf(d, c) ==
    /\ Len(c) > Len(d) + 1
    /\ SubSeq(c, 1, Len(d)) = d
    /\ c[Len(d) + 1] = "."

\* ------------------------------------------------------------ C1
\* C1: any two distinct chunks of the sequence returned by split_documents
\* are assigned different chunk_id values by the main loop.
C1_ChunkIdsUnique ==
    \A j, k \in 1..Len(ids) : j # k => ids[j].chunk_id # ids[k].chunk_id

\* ------------------------------------------------------------ C2
\* C2: the store never holds two Document nodes or two Chunk nodes with the
\* same id, and a complete run that follows a complete run leaves exactly
\* the Document/Chunk nodes the earlier one left.
C2_MergeByIdIdempotent ==
    /\ [](\A n, m \in DocChunkNodes(nodes) :
             (n.label = m.label /\ n.id = m.id) => n = m)
    /\ [][(completed >= 1 /\ completed' = completed + 1)
             => DocChunkNodes(nodes') = snapshot]_vars

C2_Witness ==
    /\ completed = 2
    /\ Cardinality(ChunkNodes) >= 2
    /\ \E n \in nodes : n.label = "Document"

\* ------------------------------------------------------------ C3
\* C3 as stated: for every chunk the embedding call precedes the extraction
\* call, the extraction call precedes every write to the store for that
\* chunk, and chunks are processed one after the other.
C3_ExtractBeforeEveryWrite ==
    /\ \A p \in Positions :
          /\ log[p].op = "extract" => Before(p, "embed", log[p].chunk)
          /\ log[p].op \in Writes => Before(p, "extract", log[p].chunk)
    /\ ChunksInTurn

\* C3 amended: for every chunk the embedding call precedes the Document/Chunk
\* upsert, the upsert precedes the extraction call, the extraction call
\* precedes add_graph_documents, and chunks are processed one after the other.
C3_EmbedUpsertExtractAdd ==
    /\ \A p \in Positions :
          /\ log[p].op = "upsert" => Before(p, "embed", log[p].chunk)
          /\ log[p].op = "extract" => Before(p, "upsert", log[p].chunk)
          /\ log[p].op = "add" => Before(p, "extract", log[p].chunk)
    /\ ChunksInTurn

C3_Witness ==
    /\ error = NoError
    /\ \E p \in Positions : log[p] = Event("add", 2)

\* ------------------------------------------------------------ C4
\* C4: when add_graph_documents returns, every node of every graph document
\* of the chunk has a HAS_ENTITY relationship from the Chunk node that has
\* the chunk's id.
C4_EveryEntityLinked ==
    [][(pc = "add" /\ pc' # "aborted") =>
         \A g \in 1..Len(graph_docs) :
           \A k \in 1..Len(graph_docs[g].nodes) :
             LET e == graph_docs[g].nodes[k] IN
             \E c \in Match(nodes', "Chunk", chunk_id) :
               \E t \in Match(nodes', e.type, e.id) :
                 [src |-> c.nid, type |-> "HAS_ENTITY", dst |-> t.nid]
                     \in rels']_vars

C4_Witness ==
    /\ pc \in {"id", "index"}
    /\ i > 1
    /\ Len(graph_docs) = 1 /\ Len(graph_docs[1].nodes) = 2
    /\ Cardinality({r.dst : r \in HasEntity}) = 2

\* ------------------------------------------------------------ C5
\* C5: when a run has completed without error, every Chunk node has a
\* textEmbedding of 1536 entries, the dimension of the chunkVector index.
C5_EmbeddingMatchesIndex ==
    pc = "done" =>
        \A n \in ChunkNodes :
            /\ n.textEmbedding = 1536
            /\ n.textEmbedding = index.dims

C5_Witness == pc = "done" /\ Cardinality(ChunkNodes) >= 2

\* ------------------------------------------------------------ C6
IndexCalls == {p \in Positions : log[p].op = "index"}

\* C6: a run issues the index statement at most once, only after the
\* add_graph_documents call of every chunk, exactly once when it completes,
\* and a run that got through every chunk does issue it.
C6_IndexOnceAfterAllChunks ==
    /\ [](/\ Cardinality(IndexCalls) <= 1
          /\ \A p \in IndexCalls :
                /\ Before(p, "load", 0)
                /\ \A k \in 1..Len(chunks) : Before(p, "add", k)
          /\ pc = "done" => Cardinality(IndexCalls) = 1)
    /\ ((pc = "index") ~> (IndexCalls # {}))

C6_Witness ==
    /\ pc = "done"
    /\ Len(chunks) >= 2
    /\ Cardinality(IndexCalls) = 1

\* ------------------------------------------------------------ C7
\* C7: issuing the index statement when chunkVector exists raises no error,
\* changes neither nodes, relationships nor the index, and the index only
\* ever has the 1536-dimension cosine configuration.
C7_IndexStatementIdempotent ==
    /\ [](index \in {NoIndex, IndexConfig})
    /\ [][(pc = "index" /\ index # NoIndex /\ pc' # "index"
              /\ error' # "external")
            => (pc' = "done" /\ error' = NoError /\ UNCHANGED store)]_vars

C7_Witness ==
    /\ pc = "done"
    /\ completed >= 2
    /\ index = IndexConfig

\* ------------------------------------------------------------ C8
\* C8: an error ends the run where it happened: the run is aborted, within
\* that run nothing more is called or written, the index statement is not
\* issued after it, and no call is made twice for the same chunk.
C8_ErrorAbortsRun ==
    /\ [](/\ error # NoError => pc = "aborted"
          /\ \A p, q \in Positions : p # q => log[p] # log[q])
    /\ [][(pc = "aborted" /\ run' = run)
            => UNCHANGED <<log, nodes, rels, index, i, pc>>]_vars

C8_Witness ==
    /\ pc = "aborted"
    /\ error = "external"
    /\ i < Len(chunks)
    /\ log[Len(log)].op \in LoopOps
    /\ IndexCalls = {}

\* ------------------------------------------------------------ C9
\* C9: chunks of two different source files get different Document ids.
C9_DistinctFilesDistinctDocuments ==
    \A j, k \in 1..Len(ids) :
        chunks[j].source # chunks[k].source
            => ids[j].filename # ids[k].filename

\* ------------------------------------------------------------ C10
\* C10: in every store state, the source of a HAS_ENTITY relationship is a
\* Chunk node that has its text, its textEmbedding and a PART_OF
\* relationship to the Document of its filename.
C10_ChunkPopulatedBeforeEntities ==
    \A r \in HasEntity :
        \E c \in ChunkNodes :
            /\ c.nid = r.src
            /\ c.text # NoText
            /\ c.textEmbedding # NoVector
            /\ \E d \in nodes :
                  /\ d.label = "Document"
                  /\ IsDocumentOf(d.id, c.id)
                  /\ [src |-> c.nid, type |-> "PART_OF", dst |-> d.nid]
                        \in rels

C10_Witness ==
    /\ pc = "aborted"
    /\ HasEntity # {}
    /\ Cardinality(ChunkNodes) > Cardinality({r.src : r \in HasEntity})

====
